---- MODULE Spec2Model ----
(***************************************************************************)
(* State-machine model of src/src/App.jsx: a React view that captures      *)
(* speech, expands medical abbreviations, sends the text to a translation  *)
(* endpoint and keeps a capped history in localStorage.                    *)
(*                                                                         *)
(* Text is a sequence of one-character strings.  The handlers installed by *)
(* the speech-recognition effect (deps [inputLang]) see the state of the   *)
(* render in which the effect ran; that snapshot is the `closure' field of *)
(* a recognizer.  Handlers bound in JSX (buttons, selects) see the current *)
(* render, i.e. the current values of the variables.                       *)
(***************************************************************************)
EXTENDS Integers, Sequences, FiniteSets, TLC

VARIABLES
    inputLang,         \* useState('en')
    outputLang,        \* useState('es')
    isListening,       \* useState(false)
    originalText,      \* useState('')
    translatedText,    \* useState('')
    interimText,       \* useState('')
    isTranslating,     \* useState(false)
    showDisclaimer,    \* useState(true)
    error,             \* useState('')
    sessions,          \* useState([])
    recognitionRef,    \* useRef(null): <<>> for null, else <<the current recognizer>>
    endingRecs,        \* recognizers replaced by the effect whose end event is still due
    inflight,          \* translation requests awaiting their response, in issue order
    localStorage,      \* the browser's localStorage: a function on the keys present
    speechSupported,   \* whether window has (webkit)SpeechRecognition
    now,               \* Date.now()
    lastOp,            \* the handler that ran last
    enhIn,             \* argument of a stand-alone call of enhanceMedicalTerms
    enhOut,            \* <<>> before the call, <<its result>> after
    clearedRecords     \* the records that were in a history when clearHistory ran

vars == <<inputLang, outputLang, isListening, originalText, translatedText,
          interimText, isTranslating, showDisclaimer, error, sessions,
          recognitionRef, endingRecs, inflight, localStorage, speechSupported,
          now, lastOp, enhIn, enhOut, clearedRecords>>

---------------------------------------------------------------------------
(* Input bound of the complete next-state relation *)

MaxBatch == 2         \* results in one onresult batch

---------------------------------------------------------------------------
(* Static catalogs *)

\* LANGUAGES, restricted to the codes the model selects
LANGUAGES ==
    << [code |-> "en", name |-> "English", voice |-> "en-US"],
       [code |-> "es", name |-> "Spanish", voice |-> "es-ES"] >>

LangCodes == { LANGUAGES[i].code : i \in 1..Len(LANGUAGES) }

\* LANGUAGES.find(l => l.code === code)?.voice || 'en-US'
VoiceOf(code) ==
    IF \E i \in 1..Len(LANGUAGES) : LANGUAGES[i].code = code
    THEN LANGUAGES[CHOOSE i \in 1..Len(LANGUAGES) :
                      /\ LANGUAGES[i].code = code
                      /\ \A j \in 1..(i-1) : LANGUAGES[j].code # code].voice
    ELSE "en-US"

\* MEDICAL_TERMS in insertion order (the order of Object.keys)
MEDICAL_TERMS ==
    << << <<"b","p">>, <<"b","l","o","o","d"," ","p","r","e","s","s","u","r","e">> >>,
       << <<"h","r">>, <<"h","e","a","r","t"," ","r","a","t","e">> >>,
       << <<"t","e","m","p">>, <<"t","e","m","p","e","r","a","t","u","r","e">> >>,
       << <<"m","e","d","s">>, <<"m","e","d","i","c","a","t","i","o","n","s">> >>,
       << <<"r","x">>, <<"p","r","e","s","c","r","i","p","t","i","o","n">> >>,
       << <<"d","x">>, <<"d","i","a","g","n","o","s","i","s">> >>,
       << <<"t","x">>, <<"t","r","e","a","t","m","e","n","t">> >>,
       << <<"h","x">>, <<"h","i","s","t","o","r","y">> >>,
       << <<"s","x">>, <<"s","y","m","p","t","o","m","s">> >> >>

HISTORY_LIMIT == 10   \* .slice(0, 10)

---------------------------------------------------------------------------
(* Strings *)

UpperLetters == <<"A","B","C","D","E","F","G","H","I","J","K","L","M",
                  "N","O","P","Q","R","S","T","U","V","W","X","Y","Z">>
LowerLetters == <<"a","b","c","d","e","f","g","h","i","j","k","l","m",
                  "n","o","p","q","r","s","t","u","v","w","x","y","z">>
Digits == {"0","1","2","3","4","5","6","7","8","9"}

\* String.prototype.toLowerCase on one character
LowerChar(c) ==
    IF \E i \in 1..26 : UpperLetters[i] = c
    THEN LowerLetters[CHOOSE i \in 1..26 : UpperLetters[i] = c]
    ELSE IF c = "É" THEN "é" ELSE c

toLowerCase(text) == [i \in 1..Len(text) |-> LowerChar(text[i])]

\* the regular expression class \w (no u flag): [A-Za-z0-9_]
IsWordChar(c) ==
    \/ \E i \in 1..26 : UpperLetters[i] = c \/ LowerLetters[i] = c
    \/ c \in Digits
    \/ c = "_"

\* the assertion \b at the gap before position p (1 .. Len(text)+1)
IsBoundary(text, p) ==
    LET before == p > 1 /\ IsWordChar(text[p-1])
        after  == p <= Len(text) /\ IsWordChar(text[p])
    IN  before # after

\* as RegexMatchAt, for the pattern /KEY/gi without the \b assertions
RegexMatchAt_NoBoundary(text, i, key) ==
    /\ i + Len(key) - 1 <= Len(text)
    /\ \A k \in 1..Len(key) : LowerChar(text[i+k-1]) = LowerChar(key[k])

\* /\bKEY\b/gi matches at position i
RegexMatchAt(text, i, key) ==
    /\ i + Len(key) - 1 <= Len(text)
    /\ \A k \in 1..Len(key) : LowerChar(text[i+k-1]) = LowerChar(key[k])
    /\ IsBoundary(text, i)
    /\ IsBoundary(text, i + Len(key))

\* text.replace(/\bKEY\b/gi, repl), scanning from position i
RECURSIVE ReplaceAllFrom(_, _, _, _)
ReplaceAllFrom(text, i, key, repl) ==
    IF i > Len(text) THEN <<>>
    ELSE IF RegexMatchAt(text, i, key)
         THEN repl \o ReplaceAllFrom(text, i + Len(key), key, repl)
         ELSE <<text[i]>> \o ReplaceAllFrom(text, i + 1, key, repl)

\* Object.keys(MEDICAL_TERMS).forEach(...), keys k..9
RECURSIVE EnhanceFromKey(_, _)
EnhanceFromKey(enhanced, k) ==
    IF k > Len(MEDICAL_TERMS) THEN enhanced
    ELSE EnhanceFromKey(
            ReplaceAllFrom(enhanced, 1, MEDICAL_TERMS[k][1], MEDICAL_TERMS[k][2]),
            k + 1)

enhanceMedicalTerms(text) == EnhanceFromKey(toLowerCase(text), 1)

\* !text.trim()
Whitespace == {" ", "\t", "\n"}
IsBlank(text) == \A i \in 1..Len(text) : text[i] \in Whitespace

---------------------------------------------------------------------------
(* Persistence *)

\* JSON.stringify of the sessions array: each record becomes its list of
\* key/value pairs in property order
JSON_stringify(list) ==
    [i \in 1..Len(list) |->
        << <<"id", list[i].id>>, <<"timestamp", list[i].timestamp>>,
           <<"inputLang", list[i].inputLang>>, <<"outputLang", list[i].outputLang>>,
           <<"original", list[i].original>>, <<"translated", list[i].translated>> >>]

\* the value of property `key' in a parsed object
JSON_prop(obj, key) ==
    obj[CHOOSE k \in 1..Len(obj) : obj[k][1] = key][2]

\* JSON.parse of a stored sessions array
JSON_parse(json) ==
    [i \in 1..Len(json) |->
        [id         |-> JSON_prop(json[i], "id"),
         timestamp  |-> JSON_prop(json[i], "timestamp"),
         inputLang  |-> JSON_prop(json[i], "inputLang"),
         outputLang |-> JSON_prop(json[i], "outputLang"),
         original   |-> JSON_prop(json[i], "original"),
         translated |-> JSON_prop(json[i], "translated")]]

\* new Date().toISOString() at clock value t
toISOString(t) == <<"iso", t>>

\* array.slice(0, n)
Slice0(list, n) == SubSeq(list, 1, IF Len(list) < n THEN Len(list) ELSE n)

\* the session object and the array built by saveSession, as seen from a
\* render whose sessions/inputLang/outputLang are those of closure cl
NewSession(cl, original, translated) ==
    [id         |-> now,
     timestamp  |-> toISOString(now),
     inputLang  |-> cl.inputLang,
     outputLang |-> cl.outputLang,
     original   |-> original,
     translated |-> translated]

\* as NewSessions, without .slice(0, 10)
NewSessions_NoSlice(cl, original, translated) ==
    <<NewSession(cl, original, translated)>> \o cl.sessions

NewSessions(cl, original, translated) ==
    Slice0(<<NewSession(cl, original, translated)>> \o cl.sessions, HISTORY_LIMIT)

\* a history left in localStorage by an earlier visit: n records, newest
\* first, created at clock values before this run
EarlierSessions(n) ==
    [i \in 1..n |->
        [id         |-> 0 - i,
         timestamp  |-> toISOString(0 - i),
         inputLang  |-> "en",
         outputLang |-> "es",
         original   |-> <<"o","k"," ">>,
         translated |-> "t0"]]

---------------------------------------------------------------------------
(* Recognizers and closures *)

\* what the handlers created by the effect can see: the state of the render
\* in which the effect ran
Closure(listening, original, sess, inLang, outLang) ==
    [isListening  |-> listening,
     originalText |-> original,
     sessions     |-> sess,
     inputLang    |-> inLang,
     outputLang   |-> outLang]

\* as NewRecognition, with the effect leaving lang at the default tag
NewRecognition_DefaultLang(cl) ==
    [lang |-> "en-US", status |-> "idle", closure |-> cl]

\* new SpeechRecognition() configured by the effect; status is
\*   "idle"      not started, or ended
\*   "active"    start() called, no end event yet
\*   "stopping"  stop() called while active, end event due
\*   "errored"   error event fired, end event due
NewRecognition(cl) ==
    [lang |-> VoiceOf(cl.inputLang), status |-> "idle", closure |-> cl]

\* recognition.stop(): ignored unless the recognizer is capturing
Stopped(rec) ==
    IF rec.status = "active" THEN [rec EXCEPT !.status = "stopping"] ELSE rec

\* recognition.start() throws InvalidStateError unless the recognizer is idle
StartThrows(rec) == rec.status # "idle"

ERR_UNSUPPORTED == "Speech recognition not supported in this browser. Please use Chrome or Edge."
ERR_UNAVAILABLE == "Speech recognition not available"
ERR_TRANSLATION == "Translation failed. Please try again."
\* `Speech recognition error: ${event.error}`
ErrRecognition(code) ==
    CASE code = "no-speech" -> "Speech recognition error: no-speech"
      [] code = "network"   -> "Speech recognition error: network"
      [] OTHER              -> "Speech recognition error: unknown"

\* localStorage after setItem(key, value) / removeItem(key)
SetItem(store, key, value) ==
    [k \in (DOMAIN store) \cup {key} |-> IF k = key THEN value ELSE store[k]]
RemoveItem(store, key) ==
    [k \in (DOMAIN store) \ {key} |-> store[k]]

SESSIONS_KEY == "healthcareTranslationSessions"
DISCLAIMER_KEY == "disclaimerShown"

\* the stored sessions array as it is written, [] when the key is absent
StoredSessions ==
    IF SESSIONS_KEY \in DOMAIN localStorage THEN localStorage[SESSIONS_KEY] ELSE <<>>

\* the records of a history list
Records(list) == { list[i] : i \in 1..Len(list) }

---------------------------------------------------------------------------
(* Inputs *)

\* transcripts the recognizer reports in the main specification
Transcripts == { <<>>, <<"B","P">> }

\* event.results from resultIndex on: 1..MaxBatch results
Results == [transcript : Transcripts, isFinal : BOOLEAN]
Batches == UNION { [1..n -> Results] : n \in 1..MaxBatch }

\* texts the translation endpoint answers with
Translations == {"t1", "t2"}

\* event.error codes
ErrorCodes == {"no-speech", "network"}

\* the loop of onresult: final += transcript + ' ' / interim += transcript
RECURSIVE FinalOf(_, _)
FinalOf(batch, i) ==
    IF i > Len(batch) THEN <<>>
    ELSE (IF batch[i].isFinal THEN batch[i].transcript \o <<" ">> ELSE <<>>)
         \o FinalOf(batch, i + 1)

RECURSIVE InterimOf(_, _)
InterimOf(batch, i) ==
    IF i > Len(batch) THEN <<>>
    ELSE (IF batch[i].isFinal THEN <<>> ELSE batch[i].transcript)
         \o InterimOf(batch, i + 1)

---------------------------------------------------------------------------
(* Mount: first render, then both effects, in order *)

\* The first render has the useState initial values; the recognition effect
\* captures them; the load effect then reads localStorage.
MountClosure == Closure(FALSE, <<>>, <<>>, "en", "es")

MountState(store, supported) ==
    [inputLang      |-> "en",
     outputLang     |-> "es",
     isListening    |-> FALSE,
     originalText   |-> <<>>,
     translatedText |-> "",
     interimText    |-> <<>>,
     isTranslating  |-> FALSE,
     showDisclaimer |-> ~(DISCLAIMER_KEY \in DOMAIN store),
     error          |-> IF supported THEN "" ELSE ERR_UNSUPPORTED,
     sessions       |-> IF SESSIONS_KEY \in DOMAIN store
                        THEN JSON_parse(store[SESSIONS_KEY]) ELSE <<>>,
     recognitionRef |-> IF supported THEN <<NewRecognition(MountClosure)>> ELSE <<>>]

\* what an earlier visit can have left in localStorage
StoredSessionCounts == {0, 1, HISTORY_LIMIT}
Store(n, disclaimerShown) ==
    [k \in (IF n = 0 THEN {} ELSE {SESSIONS_KEY})
            \cup (IF disclaimerShown THEN {DISCLAIMER_KEY} ELSE {})
        |-> IF k = SESSIONS_KEY THEN JSON_stringify(EarlierSessions(n)) ELSE "true"]
InitialStores == { Store(n, d) : n \in StoredSessionCounts, d \in BOOLEAN }

InitWith(stores, supports) ==
    /\ localStorage \in stores
    /\ speechSupported \in supports
    /\ LET m == MountState(localStorage, speechSupported) IN
         /\ inputLang = m.inputLang
         /\ outputLang = m.outputLang
         /\ isListening = m.isListening
         /\ originalText = m.originalText
         /\ translatedText = m.translatedText
         /\ interimText = m.interimText
         /\ isTranslating = m.isTranslating
         /\ showDisclaimer = m.showDisclaimer
         /\ error = m.error
         /\ sessions = m.sessions
         /\ recognitionRef = m.recognitionRef
    /\ endingRecs = <<>>
    /\ inflight = <<>>
    /\ now = 1
    /\ lastOp = "mount"
    /\ enhIn = <<>>
    /\ enhOut = <<>>
    /\ clearedRecords = {}

Init == InitWith(InitialStores, BOOLEAN)

\* reloading the page: every script object is discarded (recognizers,
\* pending fetches), localStorage stays, the component mounts again
Reload ==
    /\ LET m == MountState(localStorage, speechSupported) IN
         /\ inputLang' = m.inputLang
         /\ outputLang' = m.outputLang
         /\ isListening' = m.isListening
         /\ originalText' = m.originalText
         /\ translatedText' = m.translatedText
         /\ interimText' = m.interimText
         /\ isTranslating' = m.isTranslating
         /\ showDisclaimer' = m.showDisclaimer
         /\ error' = m.error
         /\ sessions' = m.sessions
         /\ recognitionRef' = m.recognitionRef
    /\ endingRecs' = <<>>
    /\ inflight' = <<>>
    /\ lastOp' = "reload"
    /\ UNCHANGED <<localStorage, speechSupported, now, enhIn, enhOut,
                   clearedRecords>>

---------------------------------------------------------------------------
(* Capture callbacks *)

RemoveAt(seq, i) == SubSeq(seq, 1, i - 1) \o SubSeq(seq, i + 1, Len(seq))

\* as HandleResult, with setOriginalText(originalText + enhanced) in place of
\* the updater form
HandleResult_StaleAppend(cl, batch) ==
    LET final    == FinalOf(batch, 1)
        interim  == InterimOf(batch, 1)
        enhanced == enhanceMedicalTerms(final)
        text     == cl.originalText \o enhanced
    IN  /\ IF final # <<>>
           THEN /\ originalText' = cl.originalText \o enhanced
                /\ IF IsBlank(text)
                   THEN UNCHANGED <<isTranslating, error, inflight>>
                   ELSE /\ isTranslating' = TRUE
                        /\ error' = ""
                        /\ inflight' = Append(inflight, [text |-> text, closure |-> cl])
           ELSE UNCHANGED <<originalText, isTranslating, error, inflight>>
        /\ interimText' = interim
        /\ lastOp' = "onresult"
        /\ UNCHANGED <<inputLang, outputLang, isListening, translatedText, showDisclaimer,
                       sessions, recognitionRef, endingRecs, localStorage,
                       speechSupported, now, enhIn, enhOut, clearedRecords>>

\* recognition.onresult of a recognizer whose handlers captured closure cl
HandleResult(cl, batch) ==
    LET final    == FinalOf(batch, 1)
        interim  == InterimOf(batch, 1)
        enhanced == enhanceMedicalTerms(final)
        text     == cl.originalText \o enhanced      \* translateText(originalText + enhanced)
    IN  /\ IF final # <<>>
           THEN /\ originalText' = originalText \o enhanced   \* setOriginalText(prev => prev + enhanced)
                /\ IF IsBlank(text)                  \* if (!text.trim()) return
                   THEN UNCHANGED <<isTranslating, error, inflight>>
                   ELSE /\ isTranslating' = TRUE
                        /\ error' = ""
                        /\ inflight' = Append(inflight, [text |-> text, closure |-> cl])
           ELSE UNCHANGED <<originalText, isTranslating, error, inflight>>
        /\ interimText' = interim
        /\ lastOp' = "onresult"
        /\ UNCHANGED <<inputLang, outputLang, isListening, translatedText, showDisclaimer,
                       sessions, recognitionRef, endingRecs, localStorage,
                       speechSupported, now, enhIn, enhOut,
                   clearedRecords>>

\* a result batch from the current recognizer (capturing, or flushing after stop())
OnResult(batch) ==
    /\ recognitionRef # <<>>
    /\ recognitionRef[1].status \in {"active", "stopping"}
    /\ HandleResult(recognitionRef[1].closure, batch)

\* a result batch from a replaced recognizer flushing after the cleanup's stop()
OnResultReplaced(i, batch) ==
    /\ i \in 1..Len(endingRecs)
    /\ endingRecs[i].status = "stopping"
    /\ HandleResult(endingRecs[i].closure, batch)

\* recognition.onerror of the current recognizer
OnError(code) ==
    /\ recognitionRef # <<>>
    /\ recognitionRef[1].status = "active"
    /\ error' = ErrRecognition(code)
    /\ isListening' = FALSE
    /\ recognitionRef' = <<[recognitionRef[1] EXCEPT !.status = "errored"]>>
    /\ lastOp' = "onerror"
    /\ UNCHANGED <<inputLang, outputLang, originalText, translatedText, interimText,
                   isTranslating, showDisclaimer, sessions, endingRecs, inflight,
                   localStorage, speechSupported, now, enhIn, enhOut,
                   clearedRecords>>

\* the body of recognition.onend for handlers that captured closure cl, run
\* when the current recognizer is cur:
\*   if (isListening) { try { recognitionRef.current.start() } catch { setIsListening(false) } }
EndHandler(cl, cur) ==
    IF cl.isListening
    THEN IF StartThrows(cur)
         THEN /\ recognitionRef' = <<cur>>
              /\ isListening' = FALSE
         ELSE /\ recognitionRef' = <<[cur EXCEPT !.status = "active"]>>
              /\ UNCHANGED isListening
    ELSE /\ recognitionRef' = <<cur>>
         /\ UNCHANGED isListening

\* the end event of the current recognizer: after stop(), after an error, or
\* when the browser ends the capture by itself
OnEnd ==
    /\ recognitionRef # <<>>
    /\ recognitionRef[1].status \in {"active", "stopping", "errored"}
    /\ EndHandler(recognitionRef[1].closure, [recognitionRef[1] EXCEPT !.status = "idle"])
    /\ lastOp' = "onend"
    /\ UNCHANGED <<inputLang, outputLang, originalText, translatedText, interimText,
                   isTranslating, showDisclaimer, error, sessions, endingRecs, inflight,
                   localStorage, speechSupported, now, enhIn, enhOut,
                   clearedRecords>>

\* the end event of a replaced recognizer
OnEndReplaced(i) ==
    /\ i \in 1..Len(endingRecs)
    /\ recognitionRef # <<>>
    /\ EndHandler(endingRecs[i].closure, recognitionRef[1])
    /\ endingRecs' = RemoveAt(endingRecs, i)
    /\ lastOp' = "onendReplaced"
    /\ UNCHANGED <<inputLang, outputLang, originalText, translatedText, interimText,
                   isTranslating, showDisclaimer, error, sessions, inflight,
                   localStorage, speechSupported, now, enhIn, enhOut,
                   clearedRecords>>

---------------------------------------------------------------------------
(* Translation responses *)

\* as saveSession, without localStorage.setItem
saveSession_NoPersist(cl, original, translated) ==
    /\ sessions' = NewSessions(cl, original, translated)
    /\ localStorage' = localStorage

\* saveSession(original, translated) called from the render of closure cl
saveSession(cl, original, translated) ==
    /\ sessions' = NewSessions(cl, original, translated)
    /\ localStorage' = SetItem(localStorage, SESSIONS_KEY,
                               JSON_stringify(NewSessions(cl, original, translated)))

\* the fetch of request i resolves with a well-formed payload
TranslateResolved(i, translated) ==
    /\ i \in 1..Len(inflight)
    /\ translatedText' = translated
    /\ saveSession(inflight[i].closure, inflight[i].text, translated)
    /\ isTranslating' = FALSE                        \* finally
    /\ inflight' = RemoveAt(inflight, i)
    /\ now' = now + 1
    /\ lastOp' = "translateResolved"
    /\ UNCHANGED <<inputLang, outputLang, isListening, originalText, interimText,
                   showDisclaimer, error, recognitionRef, endingRecs,
                   speechSupported, enhIn, enhOut,
                   clearedRecords>>

\* as TranslateRejected, with the catch block also resetting the translated text
TranslateRejected_ClearsText(i) ==
    /\ i \in 1..Len(inflight)
    /\ error' = ERR_TRANSLATION
    /\ translatedText' = ""
    /\ isTranslating' = FALSE
    /\ inflight' = RemoveAt(inflight, i)
    /\ lastOp' = "translateRejected"
    /\ UNCHANGED <<inputLang, outputLang, isListening, originalText,
                   interimText, showDisclaimer, sessions, recognitionRef, endingRecs,
                   localStorage, speechSupported, now, enhIn, enhOut,
                   clearedRecords>>

\* the fetch of request i rejects (or its payload cannot be read): catch + finally
TranslateRejected(i) ==
    /\ i \in 1..Len(inflight)
    /\ error' = ERR_TRANSLATION
    /\ isTranslating' = FALSE
    /\ inflight' = RemoveAt(inflight, i)
    /\ lastOp' = "translateRejected"
    /\ UNCHANGED <<inputLang, outputLang, isListening, originalText, translatedText,
                   interimText, showDisclaimer, sessions, recognitionRef, endingRecs,
                   localStorage, speechSupported, now, enhIn, enhOut,
                   clearedRecords>>

---------------------------------------------------------------------------
(* User actions *)

toggleListening ==
    /\ IF recognitionRef = <<>>
       THEN /\ error' = ERR_UNAVAILABLE
            /\ UNCHANGED <<isListening, interimText, recognitionRef>>
       ELSE IF isListening
       THEN /\ recognitionRef' = <<Stopped(recognitionRef[1])>>
            /\ isListening' = FALSE
            /\ interimText' = <<>>
            /\ UNCHANGED error
       ELSE LET rec == [recognitionRef[1] EXCEPT !.lang = VoiceOf(inputLang)] IN
            /\ error' = ""
            /\ IF StartThrows(rec)
               THEN /\ recognitionRef' = <<rec>>
                    /\ UNCHANGED isListening
               ELSE /\ recognitionRef' = <<[rec EXCEPT !.status = "active"]>>
                    /\ isListening' = TRUE
            /\ UNCHANGED interimText
    /\ lastOp' = "toggleListening"
    /\ UNCHANGED <<inputLang, outputLang, originalText, translatedText, isTranslating,
                   showDisclaimer, sessions, endingRecs, inflight, localStorage,
                   speechSupported, now, enhIn, enhOut,
                   clearedRecords>>

\* the input select's onChange, then the effect's cleanup and the effect
setInputLang(code) ==
    /\ code \in LangCodes
    /\ code # inputLang
    /\ inputLang' = code
    /\ IF recognitionRef # <<>>
       THEN LET old == Stopped(recognitionRef[1])    \* cleanup: recognitionRef.current.stop()
            IN  /\ endingRecs' = IF old.status \in {"stopping", "errored"}
                                 THEN Append(endingRecs, old) ELSE endingRecs
                /\ recognitionRef' = <<NewRecognition(
                       Closure(isListening, originalText, sessions, code, outputLang))>>
                /\ UNCHANGED error
       ELSE /\ error' = ERR_UNSUPPORTED
            /\ UNCHANGED <<recognitionRef, endingRecs>>
    /\ lastOp' = "setInputLang"
    /\ UNCHANGED <<outputLang, isListening, originalText, translatedText, interimText,
                   isTranslating, showDisclaimer, sessions, inflight, localStorage,
                   speechSupported, now, enhIn, enhOut,
                   clearedRecords>>

\* the output select's onChange; no effect depends on outputLang
setOutputLang(code) ==
    /\ code \in LangCodes
    /\ code # outputLang
    /\ outputLang' = code
    /\ lastOp' = "setOutputLang"
    /\ UNCHANGED <<inputLang, isListening, originalText, translatedText, interimText,
                   isTranslating, showDisclaimer, error, sessions, recognitionRef,
                   endingRecs, inflight, localStorage, speechSupported, now, enhIn, enhOut,
                   clearedRecords>>

\* as clearSession, without setTranslatedText('')
clearSession_KeepsTranslation ==
    /\ originalText' = <<>>
    /\ interimText' = <<>>
    /\ error' = ""
    /\ lastOp' = "clearSession"
    /\ UNCHANGED <<inputLang, outputLang, isListening, translatedText, isTranslating,
                   showDisclaimer, sessions, recognitionRef, endingRecs, inflight,
                   localStorage, speechSupported, now, enhIn, enhOut,
                   clearedRecords>>

clearSession ==
    /\ originalText' = <<>>
    /\ translatedText' = ""
    /\ interimText' = <<>>
    /\ error' = ""
    /\ lastOp' = "clearSession"
    /\ UNCHANGED <<inputLang, outputLang, isListening, isTranslating, showDisclaimer,
                   sessions, recognitionRef, endingRecs, inflight, localStorage,
                   speechSupported, now, enhIn, enhOut,
                   clearedRecords>>

\* as clearHistory, without localStorage.removeItem
clearHistory_KeepsStorage ==
    /\ sessions' = <<>>
    /\ clearedRecords' = clearedRecords \cup Records(sessions) \cup Records(JSON_parse(StoredSessions))
    /\ lastOp' = "clearHistory"
    /\ UNCHANGED <<inputLang, outputLang, isListening, originalText, translatedText,
                   interimText, isTranslating, showDisclaimer, error, recognitionRef,
                   endingRecs, inflight, localStorage, speechSupported, now, enhIn, enhOut>>

\* as clearHistory, with localStorage.clear() in place of removeItem
clearHistory_ClearsStorage ==
    /\ sessions' = <<>>
    /\ localStorage' = [k \in {} |-> ""]
    /\ clearedRecords' = clearedRecords \cup Records(sessions) \cup Records(JSON_parse(StoredSessions))
    /\ lastOp' = "clearHistory"
    /\ UNCHANGED <<inputLang, outputLang, isListening, originalText, translatedText,
                   interimText, isTranslating, showDisclaimer, error, recognitionRef,
                   endingRecs, inflight, speechSupported, now, enhIn, enhOut>>

clearHistory ==
    /\ sessions' = <<>>
    /\ localStorage' = RemoveItem(localStorage, SESSIONS_KEY)
    /\ clearedRecords' = clearedRecords \cup Records(sessions) \cup Records(JSON_parse(StoredSessions))
    /\ lastOp' = "clearHistory"
    /\ UNCHANGED <<inputLang, outputLang, isListening, originalText, translatedText,
                   interimText, isTranslating, showDisclaimer, error, recognitionRef,
                   endingRecs, inflight, speechSupported, now, enhIn, enhOut>>

\* the button of the disclaimer modal, rendered while showDisclaimer
acceptDisclaimer ==
    /\ showDisclaimer
    /\ showDisclaimer' = FALSE
    /\ localStorage' = SetItem(localStorage, DISCLAIMER_KEY, "true")
    /\ lastOp' = "acceptDisclaimer"
    /\ UNCHANGED <<inputLang, outputLang, isListening, originalText, translatedText,
                   interimText, isTranslating, error, sessions, recognitionRef,
                   endingRecs, inflight, speechSupported, now, enhIn, enhOut,
                   clearedRecords>>

---------------------------------------------------------------------------
(* The view: every handler, with every input *)

Next ==
    \/ \E batch \in Batches : OnResult(batch)
    \/ \E i \in 1..Len(endingRecs), batch \in Batches : OnResultReplaced(i, batch)
    \/ \E code \in ErrorCodes : OnError(code)
    \/ OnEnd
    \/ \E i \in 1..Len(endingRecs) : OnEndReplaced(i)
    \/ \E i \in 1..Len(inflight), t \in Translations : TranslateResolved(i, t)
    \/ \E i \in 1..Len(inflight) : TranslateRejected(i)
    \/ toggleListening
    \/ \E code \in LangCodes : setInputLang(code)
    \/ \E code \in LangCodes : setOutputLang(code)
    \/ clearSession
    \/ clearHistory
    \/ acceptDisclaimer
    \/ Reload

\* the whole component; the specifications below are its restrictions to a
\* group of handlers and to bounded sizes
Spec == Init /\ [][Next]_vars

\* a step stays within the given sizes: characters of originalText, requests
\* in flight, replaced recognizers still ending, clock value
Within(maxText, maxInflight, maxEnding, maxNow) ==
    /\ Len(originalText') <= maxText
    /\ Len(inflight') <= maxInflight
    /\ Len(endingRecs') <= maxEnding
    /\ now' <= maxNow

---------------------------------------------------------------------------
(* The capture side alone: start/stop, language change, end and error events *)

CaptureMaxEnding == 1

\* the sizes within which this specification explores
CaptureBounds == Within(0, 0, CaptureMaxEnding, 1)

NextCapture ==
    \/ toggleListening /\ CaptureBounds
    \/ \E code \in LangCodes : setInputLang(code) /\ CaptureBounds
    \/ \E code \in ErrorCodes : OnError(code) /\ CaptureBounds
    \/ OnEnd /\ CaptureBounds
    \/ \E i \in 1..Len(endingRecs) : OnEndReplaced(i) /\ CaptureBounds
    \/ Reload /\ CaptureBounds

SpecCapture == InitWith({Store(0, TRUE)}, BOOLEAN) /\ [][NextCapture]_vars

---------------------------------------------------------------------------
(* The history side: finalized segments, responses, clearing, language      *)
(* changes and reloads, over what an earlier visit left in localStorage     *)

HistMaxText == 3
HistMaxInflight == 1
HistMaxEnding == 0
HistMaxNow == 2

FinalBatches == { <<[transcript |-> <<"O","k">>, isFinal |-> TRUE]>> }

\* the sizes within which this specification explores
HistoryBounds == Within(HistMaxText, HistMaxInflight, HistMaxEnding, HistMaxNow)

NextHistory ==
    \/ toggleListening /\ HistoryBounds
    \/ \E batch \in FinalBatches : OnResult(batch) /\ HistoryBounds
    \/ OnEnd /\ HistoryBounds
    \/ \E i \in 1..Len(inflight), t \in {"t1"} : TranslateResolved(i, t) /\ HistoryBounds
    \/ \E i \in 1..Len(inflight) : TranslateRejected(i) /\ HistoryBounds
    \/ \E code \in LangCodes : setInputLang(code) /\ HistoryBounds
    \/ clearSession /\ HistoryBounds
    \/ clearHistory /\ HistoryBounds
    \/ Reload /\ HistoryBounds

SpecHistory ==
    InitWith({Store(n, TRUE) : n \in StoredSessionCounts}, {TRUE}) /\ [][NextHistory]_vars

---------------------------------------------------------------------------
(* The translation side: overlapping requests and their responses *)

TransMaxText == 6
TransMaxInflight == 2
TransMaxNow == 3

\* the sizes within which this specification explores
TranslateBounds == Within(TransMaxText, TransMaxInflight, 0, TransMaxNow)

NextTranslate ==
    \/ toggleListening /\ TranslateBounds
    \/ \E batch \in FinalBatches : OnResult(batch) /\ TranslateBounds
    \/ \E i \in 1..Len(inflight), t \in Translations : TranslateResolved(i, t) /\ TranslateBounds
    \/ \E i \in 1..Len(inflight) : TranslateRejected(i) /\ TranslateBounds
    \/ clearSession /\ TranslateBounds
    \/ clearHistory /\ TranslateBounds

SpecTranslate == InitWith({Store(0, TRUE), Store(1, TRUE)}, {TRUE}) /\ [][NextTranslate]_vars

-----
(* The session side: texts, selected languages and the listening flag under *)
(* clear-session                                                            *)

SessMaxText == 3
SessMaxInflight == 1
SessMaxEnding == 0
SessMaxNow == 2

SessionBatches ==
    { <<[transcript |-> <<"O","k">>, isFinal |-> TRUE]>>,
      <<[transcript |-> <<"O","k">>, isFinal |-> FALSE]>> }

\* the sizes within which this specification explores
SessionBounds == Within(SessMaxText, SessMaxInflight, SessMaxEnding, SessMaxNow)

NextSession ==
    \/ toggleListening /\ SessionBounds
    \/ \E batch \in SessionBatches : OnResult(batch) /\ SessionBounds
    \/ OnEnd /\ SessionBounds
    \/ \E i \in 1..Len(inflight), t \in {"t1"} : TranslateResolved(i, t) /\ SessionBounds
    \/ \E code \in LangCodes : setInputLang(code) /\ SessionBounds
    \/ \E code \in LangCodes : setOutputLang(code) /\ SessionBounds
    \/ clearSession /\ SessionBounds
    \/ acceptDisclaimer /\ SessionBounds

SpecSession == InitWith({Store(0, FALSE)}, {TRUE}) /\ [][NextSession]_vars

---------------------------------------------------------------------------
(* The disclaimer: accepted once, then every other operation and reloads    *)

\* the sizes within which this specification explores
DisclaimerBounds == Within(SessMaxText, SessMaxInflight, SessMaxEnding, SessMaxNow)

NextDisclaimer ==
    \/ toggleListening /\ DisclaimerBounds
    \/ \E batch \in FinalBatches : OnResult(batch) /\ DisclaimerBounds
    \/ \E i \in 1..Len(inflight), t \in {"t1"} : TranslateResolved(i, t) /\ DisclaimerBounds
    \/ \E code \in LangCodes : setInputLang(code) /\ DisclaimerBounds
    \/ \E code \in LangCodes : setOutputLang(code) /\ DisclaimerBounds
    \/ clearSession /\ DisclaimerBounds
    \/ clearHistory /\ DisclaimerBounds
    \/ acceptDisclaimer /\ DisclaimerBounds
    \/ Reload /\ DisclaimerBounds

SpecDisclaimer == InitWith({Store(0, FALSE)}, {TRUE}) /\ [][NextDisclaimer]_vars

---------------------------------------------------------------------------
(* The texts: finalized and interim segments between clear-session actions, *)
(* with every other kind of event in between                                *)

TextMaxText == 6
TextMaxInflight == 1
TextMaxNow == 2

\* batches with a finalized segment, an interim segment, or both; the interim
\* transcript shares no letter with the finalized one
TextBatches ==
    { <<[transcript |-> <<"O","k">>, isFinal |-> TRUE]>>,
      <<[transcript |-> <<"H","m">>, isFinal |-> FALSE]>>,
      <<[transcript |-> <<"O","k">>, isFinal |-> TRUE],
        [transcript |-> <<"H","m">>, isFinal |-> FALSE]>> }

\* the sizes within which this specification explores
TextBounds == Within(TextMaxText, TextMaxInflight, 0, TextMaxNow)

NextText ==
    \/ toggleListening /\ TextBounds
    \/ \E batch \in TextBatches : OnResult(batch) /\ TextBounds
    \/ \E code \in {"no-speech"} : OnError(code) /\ TextBounds
    \/ OnEnd /\ TextBounds
    \/ \E i \in 1..Len(inflight), t \in {"t1"} : TranslateResolved(i, t) /\ TextBounds
    \/ \E i \in 1..Len(inflight) : TranslateRejected(i) /\ TextBounds
    \/ \E code \in {"es"} : setInputLang(code) /\ TextBounds
    \/ clearSession /\ TextBounds
    \/ clearHistory /\ TextBounds

SpecText == InitWith({Store(0, TRUE)}, {TRUE}) /\ [][NextText]_vars

---------------------------------------------------------------------------
(* enhanceMedicalTerms alone, on texts put together from a few pieces *)

MaxEnhPieces == 4

EnhPieces ==
    { <<"b","p">>, <<"B","P">>, <<"B","p">>, <<"R","x">>,
      <<"x">>, <<" ">>, <<",">>, <<"É">> }

RECURSIVE Concat(_, _)
Concat(pieces, i) ==
    IF i > Len(pieces) THEN <<>> ELSE pieces[i] \o Concat(pieces, i + 1)

EnhInputs ==
    { Concat(ps, 1) : ps \in UNION { [1..n -> EnhPieces] : n \in 0..MaxEnhPieces } }

InitEnhance ==
    /\ localStorage = Store(0, TRUE)
    /\ speechSupported = TRUE
    /\ LET m == MountState(localStorage, speechSupported) IN
         /\ inputLang = m.inputLang
         /\ outputLang = m.outputLang
         /\ isListening = m.isListening
         /\ originalText = m.originalText
         /\ translatedText = m.translatedText
         /\ interimText = m.interimText
         /\ isTranslating = m.isTranslating
         /\ showDisclaimer = m.showDisclaimer
         /\ error = m.error
         /\ sessions = m.sessions
         /\ recognitionRef = m.recognitionRef
    /\ endingRecs = <<>>
    /\ inflight = <<>>
    /\ now = 1
    /\ lastOp = "mount"
    /\ enhIn \in EnhInputs
    /\ enhOut = <<>>
    /\ clearedRecords = {}

\* const enhanced = enhanceMedicalTerms(final)
EnhanceCall ==
    /\ enhOut = <<>>
    /\ enhOut' = <<enhanceMedicalTerms(enhIn)>>
    /\ lastOp' = "enhanceMedicalTerms"
    /\ UNCHANGED <<inputLang, outputLang, isListening, originalText, translatedText,
                   interimText, isTranslating, showDisclaimer, error, sessions,
                   recognitionRef, endingRecs, inflight, localStorage, speechSupported,
                   now, enhIn, clearedRecords>>

NextEnhance == EnhanceCall

SpecEnhance == InitEnhance /\ [][NextEnhance]_vars

---------------------------------------------------------------------------
(* Properties *)

\* C1: every successful translation puts exactly one new session record in
\* front of the history as it stood just before, keeps the earlier records
\* behind it in their order, drops only those past position 10, and persists
\* that list.
C1_InsertsAtFront ==
    [][lastOp' = "translateResolved" =>
         /\ Len(sessions') >= 1
         /\ \A i \in 1..Len(sessions) : sessions[i] # sessions'[1]
         /\ sessions' = Slice0(<<sessions'[1]>> \o sessions, HISTORY_LIMIT)
         /\ SESSIONS_KEY \in DOMAIN localStorage'
         /\ JSON_parse(localStorage'[SESSIONS_KEY]) = sessions']_vars

\* C2: in every reachable state neither the in-memory history nor the
\* persisted history array holds more than 10 session records.
C2_HistoryCapped ==
    /\ Len(sessions) <= 10
    /\ Len(StoredSessions) <= 10

\* a response has just been saved on top of a full history: ten records are
\* kept, the new one first, and the oldest earlier record is gone
C2_Witness ==
    /\ lastOp = "translateResolved"
    /\ Len(sessions) = 10
    /\ Len(StoredSessions) = 10
    /\ sessions[1].id >= 1
    /\ sessions[10].id = 0 - 9

\* C3: immediately after clear-history the in-memory history is empty and the
\* persisted history key is absent.
C3_ClearHistoryEmptiesBoth ==
    lastOp = "clearHistory" =>
        /\ sessions = <<>>
        /\ SESSIONS_KEY \notin DOMAIN localStorage

\* clear-history has run while capture is on and a request is in flight, after
\* a record was saved in this run
C3_Witness ==
    /\ lastOp = "clearHistory"
    /\ isListening
    /\ inflight # <<>>
    /\ now > 1

\* C4: clear-session empties the accumulated original text, the interim text
\* and the translated text, and leaves the in-memory history, the persisted
\* history, the disclaimer flag, the selected languages and the listening
\* state as they were.
C4_ClearSessionFrame ==
    [][lastOp' = "clearSession" =>
         /\ originalText' = <<>>
         /\ interimText' = <<>>
         /\ translatedText' = ""
         /\ sessions' = sessions
         /\ localStorage' = localStorage
         /\ showDisclaimer' = showDisclaimer
         /\ inputLang' = inputLang
         /\ outputLang' = outputLang
         /\ isListening' = isListening]_vars

\* clear-session has run with a record in both histories, the disclaimer
\* accepted, both languages changed from their defaults and capture on
C4_Witness ==
    /\ lastOp = "clearSession"
    /\ sessions # <<>>
    /\ StoredSessions # <<>>
    /\ ~showDisclaimer
    /\ DISCLAIMER_KEY \in DOMAIN localStorage
    /\ inputLang = "es"
    /\ outputLang = "en"
    /\ isListening

\* C5: when a translation call is rejected, the translated text keeps its
\* value, the error message becomes non-empty, and neither history changes.
C5_RejectionKeepsTranslation ==
    [][lastOp' = "translateRejected" =>
         /\ translatedText' = translatedText
         /\ error' # ""
         /\ sessions' = sessions
         /\ localStorage' = localStorage]_vars

\* a request has been rejected while an earlier translation is on display and
\* a record of it is in both histories
C5_Witness ==
    /\ lastOp = "translateRejected"
    /\ translatedText = "t1"
    /\ error # ""
    /\ Len(sessions) = 1
    /\ Len(StoredSessions) = 1

\* C6: once the disclaimer flag is persisted it stays persisted through every
\* operation, and every reload ends with the disclaimer not shown.
C6_DisclaimerStaysAccepted ==
    [][(DISCLAIMER_KEY \in DOMAIN localStorage) =>
         /\ (lastOp' = "reload" => showDisclaimer' = FALSE)
         /\ DISCLAIMER_KEY \in DOMAIN localStorage']_vars

\* the view has been reloaded after the disclaimer was accepted, a record was
\* saved and the history was cleared
C6_Witness ==
    /\ lastOp = "reload"
    /\ DISCLAIMER_KEY \in DOMAIN localStorage
    /\ ~showDisclaimer
    /\ now > 1
    /\ SESSIONS_KEY \notin DOMAIN localStorage

\* The text the claim expects: the words of the text (maximal runs of the
\* characters the pattern's \b treats as word characters), each lower-cased
\* and, when it then equals a key of the map, replaced by the expansion;
\* every other character lower-cased in place.
WordEnd(text, i) ==
    CHOOSE j \in i..Len(text) :
        /\ \A k \in i..j : IsWordChar(text[k])
        /\ (j = Len(text) \/ ~IsWordChar(text[j+1]))

ExpansionOf(word) ==
    IF \E k \in 1..Len(MEDICAL_TERMS) : MEDICAL_TERMS[k][1] = toLowerCase(word)
    THEN MEDICAL_TERMS[CHOOSE k \in 1..Len(MEDICAL_TERMS) :
                           MEDICAL_TERMS[k][1] = toLowerCase(word)][2]
    ELSE toLowerCase(word)

RECURSIVE ExpectedFrom(_, _)
ExpectedFrom(text, i) ==
    IF i > Len(text) THEN <<>>
    ELSE IF IsWordChar(text[i])
         THEN ExpansionOf(SubSeq(text, i, WordEnd(text, i)))
              \o ExpectedFrom(text, WordEnd(text, i) + 1)
         ELSE <<LowerChar(text[i])>> \o ExpectedFrom(text, i + 1)

\* C7: enhancement returns the lower-cased text with each word that equals a
\* key in any letter case replaced by the key's expansion and every other
\* word, also one that contains a key, left as its lower-cased self; empty
\* input gives empty output.
C7_EnhancesWholeWords ==
    enhOut # <<>> => enhOut[1] = ExpectedFrom(enhIn, 1)

\* "Bp,bpx" has been enhanced: the key in mixed case is expanded, the longer
\* word containing it is only lower-cased
C7_Witness ==
    /\ enhIn = <<"B","p",",","b","p","x">>
    /\ enhOut = << <<"b","l","o","o","d"," ","p","r","e","s","s","u","r","e",
                     ",","b","p","x">> >>

\* C8: after the user has stopped listening, the end handler does not start
\* the capture again.
C8_NoRestartAfterStop ==
    [][(/\ lastOp' = "onend"
        /\ recognitionRef # <<>>
        /\ recognitionRef[1].status = "stopping"
        /\ ~isListening)
       => recognitionRef'[1].status # "active"]_vars

\* C9: an end-of-stream signal while the listening flag is true makes the end
\* handler start capture again, or, if that start throws, clear the flag.
C9_EndRestartsWhileListening ==
    [][(lastOp' = "onend" /\ isListening)
       => (recognitionRef'[1].status = "active" \/ ~isListening')]_vars

\* C10: a capture error sets a non-empty error message and clears the
\* listening flag, and the end-of-stream signal that follows it does not
\* start the capture again.
C10_ErrorStopsCapture ==
    [][/\ lastOp' = "onerror" => (error' # "" /\ ~isListening')
       /\ (/\ lastOp' = "onend"
           /\ recognitionRef # <<>>
           /\ recognitionRef[1].status = "errored")
          => recognitionRef'[1].status # "active"]_vars

\* C11: a response that resolves while other requests are in flight leaves
\* those in flight, puts its own result on display and puts a record of its
\* own request in front of the history; when two responses resolve one right
\* after the other (their requests overlapped), the record of the first is
\* still in the history after the second.
C11_OverlappingResponses ==
    [][lastOp' = "translateResolved" =>
         /\ \E i \in 1..Len(inflight) :
                /\ inflight' = RemoveAt(inflight, i)
                /\ Len(sessions') >= 1
                /\ sessions'[1].original = inflight[i].text
                /\ sessions'[1].translated = translatedText'
         /\ (lastOp = "translateResolved" =>
                \E k \in 1..Len(sessions') : sessions'[k] = sessions[1])]_vars

\* the part of C11 that concerns the display and the requests still in flight
C11_LastResponseWins ==
    [][lastOp' = "translateResolved" =>
         \E i \in 1..Len(inflight) :
            /\ inflight' = RemoveAt(inflight, i)
            /\ Len(sessions') >= 1
            /\ sessions'[1].original = inflight[i].text
            /\ sessions'[1].translated = translatedText']_vars

\* C12: a request issued by a result batch carries the input and output
\* language codes selected when the batch arrives, and the record saved from
\* a response stores the two codes its request carried.
C12_RequestCarriesSelectedLangs ==
    [][/\ (lastOp' = "onresult" /\ Len(inflight') = Len(inflight) + 1) =>
            /\ inflight'[Len(inflight')].closure.inputLang = inputLang
            /\ inflight'[Len(inflight')].closure.outputLang = outputLang
       /\ lastOp' = "translateResolved" =>
            \E i \in 1..Len(inflight) :
               /\ inflight' = RemoveAt(inflight, i)
               /\ sessions'[1].inputLang = inflight[i].closure.inputLang
               /\ sessions'[1].outputLang = inflight[i].closure.outputLang]_vars

\* the part of C12 that concerns the input language and the saved record
C12_InputLangAndRecord ==
    [][/\ (lastOp' = "onresult" /\ Len(inflight') = Len(inflight) + 1) =>
            inflight'[Len(inflight')].closure.inputLang = inputLang
       /\ lastOp' = "translateResolved" =>
            \E i \in 1..Len(inflight) :
               /\ inflight' = RemoveAt(inflight, i)
               /\ sessions'[1].inputLang = inflight[i].closure.inputLang
               /\ sessions'[1].outputLang = inflight[i].closure.outputLang]_vars

\* C13: the text of a request issued by a result batch is the accumulated
\* original text as it stands once the batch's enhanced text is appended.
C13_SubmitsAccumulatedText ==
    [][(lastOp' = "onresult" /\ Len(inflight') = Len(inflight) + 1) =>
          inflight'[Len(inflight')].text = originalText']_vars

\* C14: no record that was in the in-memory or persisted history when
\* clear-history ran is in the in-memory or persisted history afterwards.
C14_ClearedRecordsStayGone ==
    \A r \in clearedRecords :
        /\ r \notin Records(sessions)
        /\ r \notin Records(JSON_parse(StoredSessions))

\* C15: a current recognizer that is capturing is configured with the voice
\* tag of the selected input language and no replaced recognizer is
\* capturing; an input-language change stops the recognizer it replaces and
\* installs a new, not yet started one configured with the new tag; a start
\* from the button configures the tag of the selected language.
C15_LocaleFollowsInputLang ==
    [][/\ (recognitionRef' # <<>> /\ recognitionRef'[1].status = "active") =>
            recognitionRef'[1].lang = VoiceOf(inputLang')
       /\ \A i \in 1..Len(endingRecs') : endingRecs'[i].status # "active"
       /\ (lastOp' = "setInputLang" /\ recognitionRef # <<>>) =>
            /\ recognitionRef'[1].lang = VoiceOf(inputLang')
            /\ recognitionRef'[1].status = "idle"
            /\ recognitionRef[1].status = "active" =>
                  endingRecs' = Append(endingRecs,
                                       [recognitionRef[1] EXCEPT !.status = "stopping"])
       /\ (/\ lastOp' = "toggleListening"
           /\ recognitionRef # <<>>
           /\ recognitionRef[1].status # "active"
           /\ recognitionRef'[1].status = "active") =>
            recognitionRef'[1].lang = VoiceOf(inputLang)]_vars

\* the end handler of a replaced recognizer has started the current one, which
\* the effect created after a change back to English: it captures with en-US
\* while the recognizer it replaced, configured es-ES, is gone
C15_Witness ==
    /\ lastOp = "onendReplaced"
    /\ recognitionRef # <<>>
    /\ recognitionRef[1].status = "active"
    /\ recognitionRef[1].closure.inputLang = "en"
    /\ recognitionRef[1].closure.isListening
    /\ recognitionRef[1].lang = "en-US"
    /\ inputLang = "en"
    /\ endingRecs = <<>>

\* the letters of the interim transcripts of TextBatches, in either case
InterimLetters == {"H", "h", "M", "m"}

\* no stored record holds a letter of an interim transcript
NoInterimStored(store) ==
    SESSIONS_KEY \in DOMAIN store =>
        \A i \in 1..Len(store[SESSIONS_KEY]) :
            LET original == JSON_prop(store[SESSIONS_KEY][i], "original")
            IN  \A j \in 1..Len(original) : original[j] \notin InterimLetters

\* C16: a result batch appends the enhanced text of its finalized segments to
\* the accumulated original text (nothing, when it has none) and replaces
\* the interim text by its interim segment; apart from clear-session no other
\* event changes the accumulated text; no interim text reaches localStorage.
C16_OriginalTextAppendOnly ==
    [][/\ lastOp' = "onresult" =>
            \E batch \in TextBatches :
               /\ originalText' = originalText \o enhanceMedicalTerms(FinalOf(batch, 1))
               /\ interimText' = InterimOf(batch, 1)
       /\ lastOp' \notin {"onresult", "clearSession"} => originalText' = originalText
       /\ NoInterimStored(localStorage')]_vars

\* a second batch, with a finalized and an interim segment, has arrived after
\* the response to the first was saved: the text holds both finalized
\* segments, the interim segment is on display and a record is stored
C16_Witness ==
    /\ lastOp = "onresult"
    /\ originalText = <<"o","k"," ","o","k"," ">>
    /\ interimText = <<"H","m">>
    /\ Len(StoredSessions) = 1
    /\ inflight # <<>>

\* an end event is due whose handler will call start(): that of the current
\* recognizer or that of a replaced one, created in a render with the
\* listening flag set
RestartDue ==
    \/ /\ recognitionRef[1].status \in {"stopping", "errored"}
       /\ recognitionRef[1].closure.isListening
    \/ \E i \in 1..Len(endingRecs) : endingRecs[i].closure.isListening

\* C17: while the listening flag is true there is a current recognizer and it
\* is capturing or an end handler is due that will start it.
C17_ListeningMeansCapturing ==
    isListening =>
        /\ recognitionRef # <<>>
        /\ (recognitionRef[1].status = "active" \/ RestartDue)

\* C18: the persisted history, read back, is the in-memory history; an absent
\* key reads as the empty list.
C18_PersistedEqualsInMemory ==
    sessions = JSON_parse(StoredSessions)

\* the view has been reloaded after a response was saved and no history was
\* cleared: the history in memory is the one record read back from storage
C18_Witness ==
    /\ lastOp = "reload"
    /\ Len(sessions) = 1
    /\ sessions[1].id = 1
    /\ sessions[1].translated = "t1"
    /\ clearedRecords = {}

\* C19: the translating indicator is true exactly when a translation request
\* is in flight.
C19_TranslatingIffInflight ==
    isTranslating <=> (inflight # <<>>)

\* the part of C19 that holds when requests do not overlap: the indicator is
\* set while a request is issued and is off when none is in flight
C19_OneRequestAtATime ==
    /\ (inflight = <<>>) => ~isTranslating
    /\ Len(inflight) = 1 => isTranslating

====
